---- MODULE Spec2Model ----
(***************************************************************************)
(* Model of bevy_render2's bind group builder                              *)
(* (pipelined/bevy_render2/src/render_resource/bind_group.rs).             *)
(*                                                                         *)
(* A BindGroupBuilder accumulates (slot index, binding) pairs, feeds the   *)
(* identity-relevant fields of every binding to a running hasher, and      *)
(* finish() turns it into a BindGroup whose entries are sorted by slot.    *)
(***************************************************************************)
EXTENDS Integers, Sequences, FiniteSets, TLC

(* ----------------------------- bounds --------------------------------- *)

\* Largest number of add_* calls made on one builder before finish().
MaxAdds == 3

\* Width in bits of the modelled hasher state (the code's is 64).
HashWidth == 16

\* Slot indices (u32 in the code), resource handles, byte ranges and dynamic
\* offset indices the callers pass in.
SlotIndices == {0, 1, 2}
BufferIds == {1}
TextureIds == {1}
SamplerIds == {1}
Ranges == {<<0, 64>>, <<0, 32>>}
DynamicIndices == {5, 7}

(* -------------------- Option<u32>, RenderResourceBinding --------------- *)

\* Option<T> is a sequence of length at most one.
None == <<>>
Some(x) == <<x>>

\* RenderResourceBinding::Buffer { buffer, range, dynamic_index }
Buffer(b, r, d) ==
    [kind |-> "Buffer", id |-> b, range |-> r, dynamic_index |-> d]

\* RenderResourceBinding::Texture(texture)
Texture(t) ==
    [kind |-> "Texture", id |-> t, range |-> <<0, 0>>, dynamic_index |-> None]

\* RenderResourceBinding::Sampler(sampler)
Sampler(s) ==
    [kind |-> "Sampler", id |-> s, range |-> <<0, 0>>, dynamic_index |-> None]

RenderResourceBinding ==
    {Buffer(b, r, d) : b \in BufferIds, r \in Ranges,
                       d \in {None} \cup {Some(x) : x \in DynamicIndices}}
    \cup {Texture(t) : t \in TextureIds}
    \cup {Sampler(s) : s \in SamplerIds}

\* struct IndexedBindGroupEntry { index, entry }
IndexedBindGroupEntry(i, e) == [index |-> i, entry |-> e]

\* Equality by slot index alone.
IndexedBindGroupEntry_eq_by_index(a, b) == a.index = b.index

\* #[derive(Eq, PartialEq)] on IndexedBindGroupEntry: field by field.
IndexedBindGroupEntry_eq(a, b) == a.index = b.index /\ a.entry = b.entry

(* ------------------------------ hasher --------------------------------- *)

HashModulus == 2 ^ HashWidth

\* AHasher::default(): a fixed initial state.
AHasherDefault == 7

\* Hasher::write_*: mixes one token into the running state; the result
\* depends on the order of the tokens.
AHasherWrite(h, tok) == (h * 31 + tok + 1) % HashModulus

\* Hasher::finish(): the 64-bit output, a function of the running state.
AHasherFinish(h) == (h * 4093 + 1) % HashModulus

\* #[derive(Hash)] on RenderResourceId: the discriminant, then the handle.
RenderResourceIdDiscriminant(kind) ==
    CASE kind = "Buffer" -> 0
      [] kind = "Texture" -> 1
      [] kind = "Sampler" -> 2

RenderResourceIdHash(h, kind, id) ==
    AHasherWrite(AHasherWrite(h, RenderResourceIdDiscriminant(kind)), id)

\* Range<u64>::hash: start, then end.
RangeHash(h, r) == AHasherWrite(AHasherWrite(h, r[1]), r[2])

(* --------------------------- BindGroupBuilder -------------------------- *)

\* BindGroupBuilder::default(), returned by BindGroup::build().
build ==
    [indexed_bindings |-> <<>>,
     dynamic_uniform_indices |-> <<>>,
     hasher |-> AHasherDefault]

\* hash_binding with the dynamic offset index fed to the hasher as well.
hash_binding_with_dynamic_index(self, binding) ==
    IF binding.kind = "Buffer"
    THEN AHasherWrite(
             RangeHash(RenderResourceIdHash(self.hasher, "Buffer", binding.id),
                       binding.range),
             IF binding.dynamic_index = None THEN 0
             ELSE 1 + binding.dynamic_index[1])
    ELSE RenderResourceIdHash(self.hasher, binding.kind, binding.id)

\* BindGroupBuilder::hash_binding: the new hasher state.
hash_binding(self, binding) ==
    IF binding.kind = "Buffer"
    THEN RangeHash(RenderResourceIdHash(self.hasher, "Buffer", binding.id),
                   binding.range)
    ELSE RenderResourceIdHash(self.hasher, binding.kind, binding.id)

\* add_binding with the slot index fed to the hasher before the binding.
add_binding_hashing_index(self, index, binding) ==
    [indexed_bindings |->
        Append(self.indexed_bindings, IndexedBindGroupEntry(index, binding)),
     dynamic_uniform_indices |->
        IF binding.kind = "Buffer" /\ binding.dynamic_index # None
        THEN Append(self.dynamic_uniform_indices, binding.dynamic_index[1])
        ELSE self.dynamic_uniform_indices,
     hasher |->
        hash_binding([self EXCEPT !.hasher = AHasherWrite(self.hasher, index)],
                     binding)]

\* add_binding that replaces an entry already bound to the slot index.
add_binding_replacing_slot(self, index, binding) ==
    [indexed_bindings |->
        IF \E k \in 1..Len(self.indexed_bindings) :
              self.indexed_bindings[k].index = index
        THEN [k \in 1..Len(self.indexed_bindings) |->
                IF self.indexed_bindings[k].index = index
                THEN IndexedBindGroupEntry(index, binding)
                ELSE self.indexed_bindings[k]]
        ELSE Append(self.indexed_bindings, IndexedBindGroupEntry(index, binding)),
     dynamic_uniform_indices |->
        IF binding.kind = "Buffer" /\ binding.dynamic_index # None
        THEN Append(self.dynamic_uniform_indices, binding.dynamic_index[1])
        ELSE self.dynamic_uniform_indices,
     hasher |-> hash_binding(self, binding)]

\* BindGroupBuilder::add_binding
add_binding(self, index, binding) ==
    [indexed_bindings |->
        Append(self.indexed_bindings, IndexedBindGroupEntry(index, binding)),
     dynamic_uniform_indices |->
        IF binding.kind = "Buffer" /\ binding.dynamic_index # None
        THEN Append(self.dynamic_uniform_indices, binding.dynamic_index[1])
        ELSE self.dynamic_uniform_indices,
     hasher |-> hash_binding(self, binding)]

add_texture(self, index, texture) == add_binding(self, index, Texture(texture))

add_sampler(self, index, sampler) == add_binding(self, index, Sampler(sampler))

add_buffer(self, index, buffer, range) ==
    add_binding(self, index, Buffer(buffer, range, None))

\* add_dynamic_buffer that drops its dynamic offset index.
add_dynamic_buffer_dropping_offset(self, index, buffer, range, dynamic_index) ==
    add_binding(self, index, Buffer(buffer, range, None))

add_dynamic_buffer(self, index, buffer, range, dynamic_index) ==
    add_binding(self, index, Buffer(buffer, range, Some(dynamic_index)))

\* Insertion before the entries of equal key: an unstable sort.
RECURSIVE InsertByKey_before_equal(_, _)
InsertByKey_before_equal(sorted, e) ==
    IF sorted = <<>> THEN <<e>>
    ELSE IF sorted[Len(sorted)].index < e.index THEN Append(sorted, e)
    ELSE Append(InsertByKey_before_equal(SubSeq(sorted, 1, Len(sorted) - 1), e),
                sorted[Len(sorted)])

\* slice::sort_by_key(|i| i.index): a stable insertion sort on the key.
RECURSIVE InsertByKey(_, _)
InsertByKey(sorted, e) ==
    IF sorted = <<>> THEN <<e>>
    ELSE IF sorted[Len(sorted)].index <= e.index THEN Append(sorted, e)
    ELSE Append(InsertByKey(SubSeq(sorted, 1, Len(sorted) - 1), e),
                sorted[Len(sorted)])

\* The sort left out.
sort_by_key_skipped(s) == s

RECURSIVE sort_by_key(_)
sort_by_key(s) ==
    IF s = <<>> THEN <<>>
    ELSE InsertByKey(sort_by_key(SubSeq(s, 1, Len(s) - 1)), s[Len(s)])

\* finish() with the dynamic offsets taken from the sorted entries.
finish_offsets_in_slot_order(self) ==
    LET sorted == sort_by_key(self.indexed_bindings)
        dynamic == SelectSeq(sorted, LAMBDA e : e.entry.kind = "Buffer"
                                               /\ e.entry.dynamic_index # None)
    IN  [id |-> AHasherFinish(self.hasher),
         indexed_bindings |-> sorted,
         dynamic_uniform_indices |->
            IF dynamic = <<>>
            THEN None
            ELSE Some([k \in 1..Len(dynamic) |-> dynamic[k].entry.dynamic_index[1]])]

\* BindGroupBuilder::finish
finish(self) ==
    [id |-> AHasherFinish(self.hasher),
     indexed_bindings |-> sort_by_key(self.indexed_bindings),
     dynamic_uniform_indices |->
        IF self.dynamic_uniform_indices = <<>>
        THEN None
        ELSE Some(self.dynamic_uniform_indices)]

(* ------------------------------- state --------------------------------- *)

VARIABLES
    builder,     \* the BindGroupBuilder being chained
    bind_group,  \* None, or Some(the BindGroup finish() returned)
    calls,       \* the add_* calls made on the builder so far, in order
    last         \* the name of the last operation called

vars == <<builder, bind_group, calls, last>>

Init ==
    /\ builder = build
    /\ bind_group = None
    /\ calls = <<>>
    /\ last = "build"

Building == bind_group = None /\ Len(calls) < MaxAdds

Record(op, i, b) ==
    /\ calls' = Append(calls, [index |-> i, binding |-> b])
    /\ last' = op
    /\ UNCHANGED bind_group

AddBinding ==
    /\ Building
    /\ \E i \in SlotIndices, b \in RenderResourceBinding :
          /\ builder' = add_binding(builder, i, b)
          /\ Record("add_binding", i, b)

AddTexture ==
    /\ Building
    /\ \E i \in SlotIndices, t \in TextureIds :
          /\ builder' = add_texture(builder, i, t)
          /\ Record("add_texture", i, Texture(t))

AddSampler ==
    /\ Building
    /\ \E i \in SlotIndices, s \in SamplerIds :
          /\ builder' = add_sampler(builder, i, s)
          /\ Record("add_sampler", i, Sampler(s))

AddBuffer ==
    /\ Building
    /\ \E i \in SlotIndices, b \in BufferIds, r \in Ranges :
          /\ builder' = add_buffer(builder, i, b, r)
          /\ Record("add_buffer", i, Buffer(b, r, None))

AddDynamicBuffer ==
    /\ Building
    /\ \E i \in SlotIndices, b \in BufferIds, r \in Ranges, d \in DynamicIndices :
          /\ builder' = add_dynamic_buffer(builder, i, b, r, d)
          /\ Record("add_dynamic_buffer", i, Buffer(b, r, Some(d)))

\* finish() consumes the builder and returns the BindGroup; the consumed
\* builder is not used again.
Finish ==
    /\ bind_group = None
    /\ bind_group' = Some(finish(builder))
    /\ last' = "finish"
    /\ UNCHANGED <<builder, calls>>

\* BindGroup::build(): a fresh builder for the next bind group.
Build ==
    /\ bind_group # None
    /\ builder' = build
    /\ bind_group' = None
    /\ calls' = <<>>
    /\ last' = "build"

Next ==
    \/ AddBinding
    \/ AddTexture
    \/ AddSampler
    \/ AddBuffer
    \/ AddDynamicBuffer
    \/ Finish
    \/ Build

Spec == Init /\ [][Next]_vars

(* ------------- replaying a call sequence on a fresh builder ------------ *)

\* BindGroup::build().add_binding(..)...add_binding(..) over the calls of log.
RECURSIVE Chain(_)
Chain(log) ==
    IF log = <<>> THEN build
    ELSE add_binding(Chain(SubSeq(log, 1, Len(log) - 1)),
                     log[Len(log)].index, log[Len(log)].binding)

BuildAndFinish(log) == finish(Chain(log))

Finished == bind_group # None

BG == bind_group[1]

\* The (index, binding) pairs of a call sequence as entries, in call order.
EntriesOf(log) ==
    [k \in 1..Len(log) |-> IndexedBindGroupEntry(log[k].index, log[k].binding)]

\* Every order in which the calls of log can be made.
AddOrders(log) ==
    LET n == Len(log)
        bijections == {q \in [1..n -> 1..n] :
                          \A a, b \in 1..n : a # b => q[a] # q[b]}
    IN  {[k \in 1..n |-> log[q[k]]] : q \in bijections}

DistinctIndices(log) ==
    \A a, b \in 1..Len(log) : a # b => log[a].index # log[b].index

IsDynamic(binding) == binding.kind = "Buffer" /\ binding.dynamic_index # None

(* ---------------------- insertion-order independence ------------------- *)

\* C1: builders that receive the same (slot index, binding) pairs, with
\* pairwise distinct slot indices, in any two add orders finish into
\* BindGroups with the same id and the same sorted indexed_bindings.
C1_InsertionOrderIndependent ==
    (Finished /\ DistinctIndices(calls)) =>
        \A other \in AddOrders(calls) :
            /\ BuildAndFinish(other).id = BG.id
            /\ BuildAndFinish(other).indexed_bindings = BG.indexed_bindings

(* ------------------------------ sortedness ----------------------------- *)

\* C2: the indexed_bindings of the finished BindGroup are in non-decreasing
\* slot-index order, whatever the order of the slot indices in the calls.
C2_SortedBySlotIndex ==
    Finished =>
        \A k \in 1..(Len(BG.indexed_bindings) - 1) :
            BG.indexed_bindings[k].index <= BG.indexed_bindings[k + 1].index

\* Finished after calls whose slot indices were added in descending order.
C2_Witness ==
    /\ Finished
    /\ Len(calls) >= 3
    /\ \A k \in 1..(Len(calls) - 1) : calls[k].index > calls[k + 1].index

(* --------------------------- dynamic offsets --------------------------- *)

\* The dynamic offset indices of the dynamic buffer calls of log, in call
\* order.
RECURSIVE DynamicOffsetsOf(_)
DynamicOffsetsOf(log) ==
    IF log = <<>> THEN <<>>
    ELSE IF IsDynamic(Head(log).binding)
         THEN <<Head(log).binding.dynamic_index[1]>> \o DynamicOffsetsOf(Tail(log))
         ELSE DynamicOffsetsOf(Tail(log))

\* C3: dynamic_uniform_indices is the dynamic offset indices of the dynamic
\* buffer calls in the order they were added (not in slot order); it is None
\* exactly when there was no such call, and otherwise Some and non-empty.
C3_DynamicOffsetsInAddOrder ==
    Finished =>
        LET offsets == DynamicOffsetsOf(calls)
        IN  /\ (BG.dynamic_uniform_indices = None) <=> (offsets = <<>>)
            /\ offsets # <<>> =>
                  /\ BG.dynamic_uniform_indices = Some(offsets)
                  /\ Len(BG.dynamic_uniform_indices[1]) > 0

\* Finished after two dynamic buffers with different offsets were added in
\* descending slot order, with a texture between them: the sort reorders the
\* entries.
C3_Witness ==
    /\ Finished
    /\ Len(calls) = 3
    /\ IsDynamic(calls[1].binding) /\ IsDynamic(calls[3].binding)
    /\ calls[2].binding.kind = "Texture"
    /\ calls[1].index > calls[3].index
    /\ calls[1].binding.dynamic_index # calls[3].binding.dynamic_index
    /\ BG.indexed_bindings[1].entry = calls[3].binding

(* ------------------------- what the id depends on ---------------------- *)

DynamicIndexOptions == {None} \cup {Some(x) : x \in DynamicIndices}

IsBuffer(log, k) == log[k].binding.kind = "Buffer"

\* log with the dynamic offset index of its k-th call (a buffer) set to d.
WithDynamicIndex(log, k, d) == [log EXCEPT ![k].binding.dynamic_index = d]

\* log with the dynamic offset index of every buffer set to d.
WithDynamicIndices(log, d) ==
    [k \in 1..Len(log) |->
        IF IsBuffer(log, k)
        THEN [log[k] EXCEPT !.binding.dynamic_index = d]
        ELSE log[k]]

\* C5: two add sequences that differ only in the dynamic offset index of
\* buffer bindings (another value, or none) finish with the same id.
C5_DynamicIndexExcludedFromId ==
    Finished =>
        /\ \A d \in DynamicIndexOptions :
              BuildAndFinish(WithDynamicIndices(calls, d)).id = BG.id
        /\ \A k \in 1..Len(calls) :
              IsDynamic(calls[k].binding) =>
                  BuildAndFinish(WithDynamicIndex(calls, k, None)).id = BG.id

\* Finished after a dynamic buffer, a texture and a buffer without dynamic
\* offset index were added: each buffer has variants that differ from it in
\* the dynamic offset index alone.
C5_Witness ==
    /\ Finished
    /\ Len(calls) = 3
    /\ IsDynamic(calls[1].binding)
    /\ calls[2].binding.kind = "Texture"
    /\ IsBuffer(calls, 3) /\ ~IsDynamic(calls[3].binding)
    /\ \A d \in DynamicIndexOptions : WithDynamicIndices(calls, d) # calls
    /\ BG.dynamic_uniform_indices # None

\* log with the slot index of its k-th call, if it has one, set to i.
WithIndex(log, k, i) ==
    [j \in 1..Len(log) |-> IF j = k THEN [log[j] EXCEPT !.index = i] ELSE log[j]]

\* log with every slot index i replaced by the largest slot index minus i.
WithSlotsReversed(log) ==
    LET top == CHOOSE m \in SlotIndices : \A i \in SlotIndices : i <= m
    IN  [k \in 1..Len(log) |-> [log[k] EXCEPT !.index = top - log[k].index]]

\* The tokens a binding feeds the hasher: kind, handle and, for a buffer,
\* the byte range.
TokensOfBinding(binding) ==
    <<RenderResourceIdDiscriminant(binding.kind), binding.id>>
    \o (IF binding.kind = "Buffer" THEN binding.range ELSE <<>>)

RECURSIVE TokensOf(_)
TokensOf(log) ==
    IF log = <<>> THEN <<>>
    ELSE TokensOfBinding(Head(log).binding) \o TokensOf(Tail(log))

RECURSIVE WriteAll(_, _)
WriteAll(h, tokens) ==
    IF tokens = <<>> THEN h
    ELSE WriteAll(AHasherWrite(h, Head(tokens)), Tail(tokens))

\* C6: the id is the hash of the add-ordered tokens (kind, handle, byte
\* range) of the bindings alone, so add sequences with the same bindings in
\* the same add order and other slot indices finish with the same id.
C6_SlotIndexExcludedFromId ==
    Finished =>
        /\ BG.id = AHasherFinish(WriteAll(AHasherDefault, TokensOf(calls)))
        /\ BuildAndFinish(WithSlotsReversed(calls)).id = BG.id
        /\ \A i \in SlotIndices :
              BuildAndFinish(WithIndex(calls, Len(calls), i)).id = BG.id

\* Finished after two different bindings were added at ascending slot
\* indices: with the slots reversed the sorted entries come in the other
\* order.
C6_Witness ==
    /\ Finished
    /\ Len(calls) = 2
    /\ calls[1].index < calls[2].index
    /\ calls[1].binding.kind # calls[2].binding.kind
    /\ BG.indexed_bindings[1].entry = calls[1].binding
    /\ BuildAndFinish(WithSlotsReversed(calls)).indexed_bindings[1].entry
           = calls[2].binding

(* --------------------------- nothing is dropped ------------------------ *)

Occurrences(s, e) == Cardinality({k \in 1..Len(s) : s[k] = e})

SameMultiset(s, t) ==
    /\ Len(s) = Len(t)
    /\ \A k \in 1..Len(s) : Occurrences(s, s[k]) = Occurrences(t, s[k])

\* C7: while the builder is chained its entries are exactly the (index,
\* binding) pairs added, one per call, in call order (each add appends one
\* entry and leaves the earlier ones alone); the finished BindGroup has one
\* entry per call, and its entries are a permutation of the pairs added,
\* repeated slot indices included.
C7_EveryAddKept ==
    /\ ~Finished => builder.indexed_bindings = EntriesOf(calls)
    /\ Finished =>
          /\ Len(BG.indexed_bindings) = Len(calls)
          /\ SameMultiset(BG.indexed_bindings, EntriesOf(calls))

\* Finished after three calls, two of them binding different resources to
\* the same slot index.
C7_Witness ==
    /\ Finished
    /\ Len(calls) = 3
    /\ calls[1].index = calls[3].index
    /\ calls[1].binding # calls[3].binding
    /\ calls[2].index # calls[1].index
    /\ Len(BG.indexed_bindings) = 3

(* --------------------------- equality of entries ----------------------- *)

\* The entries held by the builder or, once finished, by the BindGroup.
Entries ==
    IF Finished
    THEN {BG.indexed_bindings[k] : k \in 1..Len(BG.indexed_bindings)}
    ELSE {builder.indexed_bindings[k] : k \in 1..Len(builder.indexed_bindings)}

\* C8 as stated: two entries compare equal exactly when their slot indices
\* are equal; the bound resource takes no part in the comparison.
C8_EqualityByIndexAlone ==
    \A a, b \in Entries :
        IndexedBindGroupEntry_eq(a, b) <=> (a.index = b.index)

\* C8 as amended: two entries compare equal exactly when their slot indices
\* are equal and their bound resources are equal; entries of the same slot
\* index with different resources compare unequal.
C8_EqualityByIndexAndEntry ==
    \A a, b \in Entries :
        /\ IndexedBindGroupEntry_eq(a, b) <=> (a.index = b.index /\ a.entry = b.entry)
        /\ (a.index = b.index /\ a.entry # b.entry) => ~IndexedBindGroupEntry_eq(a, b)
        /\ IndexedBindGroupEntry_eq(a, a)

\* Two entries of the same slot index that bind different resources.
C8_Witness ==
    \E a, b \in Entries :
        /\ a.index = b.index
        /\ a.entry # b.entry
        /\ ~IndexedBindGroupEntry_eq(a, b)

(* ------------------------------- wrappers ------------------------------ *)

\* C9: a step of a typed wrapper leaves the builder as add_binding with the
\* corresponding binding does (entries, dynamic offsets and hasher);
\* add_buffer leaves the dynamic offsets unchanged and add_dynamic_buffer
\* appends its dynamic offset index to them.
C9_WrappersDelegate ==
    [][ LET call == calls'[Len(calls')]
            same_offsets == builder'.dynamic_uniform_indices
                               = builder.dynamic_uniform_indices
        IN  /\ last' \in {"add_texture", "add_sampler", "add_buffer",
                          "add_dynamic_buffer"} =>
                  builder' = add_binding(builder, call.index, call.binding)
            /\ last' = "add_texture" =>
                  call.binding.kind = "Texture" /\ same_offsets
            /\ last' = "add_sampler" =>
                  call.binding.kind = "Sampler" /\ same_offsets
            /\ last' = "add_buffer" =>
                  /\ call.binding.kind = "Buffer"
                  /\ call.binding.dynamic_index = None
                  /\ same_offsets
            /\ last' = "add_dynamic_buffer" =>
                  /\ call.binding.kind = "Buffer"
                  /\ call.binding.dynamic_index # None
                  /\ builder'.dynamic_uniform_indices =
                        Append(builder.dynamic_uniform_indices,
                               call.binding.dynamic_index[1])
      ]_vars

\* add_dynamic_buffer was just called on a builder that already held a
\* texture and a dynamic buffer.
C9_Witness ==
    /\ ~Finished
    /\ last = "add_dynamic_buffer"
    /\ Len(calls) = 3
    /\ calls[1].binding.kind = "Texture"
    /\ IsDynamic(calls[2].binding)
    /\ Len(builder.dynamic_uniform_indices) = 2
    /\ builder.indexed_bindings[3].entry = calls[3].binding

(* ------------------------------- stability ----------------------------- *)

\* The entries of s bound to slot index i, in the order they have in s.
AtSlot(s, i) == SelectSeq(s, LAMBDA e : e.index = i)

\* C10: the entries that share a slot index keep, in the finished
\* BindGroup, the relative order in which they were added.
C10_SortIsStable ==
    Finished =>
        \A i \in SlotIndices :
            AtSlot(BG.indexed_bindings, i) = AtSlot(EntriesOf(calls), i)

\* Finished after two different bindings were added to one slot index, with
\* a binding of a higher slot index added first; making the same calls in
\* another order gives another entry sequence.
C10_Witness ==
    /\ Finished
    /\ Len(calls) = 3
    /\ calls[2].index = calls[3].index
    /\ calls[2].binding # calls[3].binding
    /\ calls[1].index > calls[2].index
    /\ BG.indexed_bindings = <<EntriesOf(calls)[2], EntriesOf(calls)[3],
                               EntriesOf(calls)[1]>>
    /\ \E other \in AddOrders(calls) :
          BuildAndFinish(other).indexed_bindings # BG.indexed_bindings

====
